---- MODULE Spec2Model ----
(***************************************************************************)
(* Model of scripts/fetch_news.py: the daily news collection script.       *)
(*                                                                         *)
(* Spec        runs of main() against the data directory (news.json, the   *)
(*             per-date archive files and archive/index.json).             *)
(* SpecIndex   sequences of update_archive_index calls, with the real cap. *)
(* SpecDate    calls of is_published_on_date.                              *)
(* SpecFetch   calls of fetch_rss_entries on a parsed feed.                *)
(* SpecDedup   the title de-duplication of process_news_category.          *)
(* SpecSummary calls of the three summary generators.                      *)
(* SpecClean   calls of clean_html_text.                                   *)
(***************************************************************************)
EXTENDS Integers, Sequences, FiniteSets, TLC

VARIABLES
    clock,        \* the wall clock read by datetime.now(), in ticks
    clockResets,  \* how many times the wall clock has been set back
    pc,           \* position of the current run of main ("idle" when none)
    news_data,    \* main: the envelope being built by the run
    newsJson,     \* data/news.json: <<>> when absent, <<envelope>> otherwise
    archiveDir,   \* data/archive/<date>.json: function from the dates that have a file
    indexJson,    \* data/archive/index.json: [exists, dates]
    idxDay,       \* SpecIndex: the date the next call is made with
    idxResets,    \* SpecIndex: times the date went back by a few days
    idxEpoch,     \* SpecIndex: whether the date has fallen back to day 0
    idxLast,      \* SpecIndex: the call just made, if any: [called, present, dropped]
    call,         \* function specifications: the arguments of the call
    ret           \* function specifications: [done, value] of the call

vars == <<clock, clockResets, pc, news_data, newsJson, archiveDir, indexJson,
          idxDay, idxResets, idxEpoch, idxLast, call, ret>>

mainVars == <<clock, clockResets, pc, news_data, newsJson, archiveDir>>
idxVars == <<idxDay, idxResets, idxEpoch, idxLast>>
fnVars == <<call, ret>>

\* ------------------------------------------------------------------ helpers

Take(s, n) == SubSeq(s, 1, IF Len(s) < n THEN Len(s) ELSE n)

Range(s) == {s[i] : i \in 1..Len(s)}

\* ------------------------------------------------------------------ bounds

TicksPerDay == 2      \* clock ticks in one calendar day
MaxClock == 3         \* the clock stops advancing here
MaxClockResets == 1   \* how often the wall clock may be set back
MaxUnique == 6        \* most deduplicated entries a category can have
NumDays == 102        \* SpecIndex: the dates are 0..NumDays
MaxBack == 2          \* SpecIndex: how many days the date may go back at once
MaxIdxResets == 1     \* SpecIndex: how often the date may go back by a few days

\* ------------------------------------------------------ program constants

MaxArticles == 5      \* main: process_news_category(..., max_articles=5)
MaxIndex == 100       \* update_archive_index: index[:100]

Categories == <<"ai", "minpaku", "rental">>

\* --------------------------------------------------- update_archive_index

\* update_archive_index without the cut to the first 100 entries
UpdatedIndexNoCap(index, date_str) ==
    IF date_str \in Range(index)
    THEN index
    ELSE <<date_str>> \o index

\* update_archive_index without the test that the date is new
UpdatedIndexNoTest(index, date_str) == Take(<<date_str>> \o index, MaxIndex)

\* index.insert(0, date_str); index = index[:100], when date_str is not in index
UpdatedIndex(index, date_str) ==
    IF date_str \in Range(index)
    THEN index
    ELSE Take(<<date_str>> \o index, MaxIndex)

\* the list update_archive_index starts from: json.load of the file, or []
LoadedIndex == IF indexJson.exists THEN indexJson.dates ELSE <<>>

update_archive_index(date_str) ==
    indexJson' = [exists |-> TRUE, dates |-> UpdatedIndex(LoadedIndex, date_str)]

\* ------------------------------------------------------------------- main

\* (today - timedelta(days=1)).strftime("%Y-%m-%d"), as a day number
TargetDate(now) == (now \div TicksPerDay) - 1

\* all the deduplicated entries, whatever their number
ProcessedArticlesAll(unique_entries, max_articles) == unique_entries

\* process_news_category: the first max_articles of the deduplicated entries
ProcessedArticles(unique_entries, max_articles) == Take(unique_entries, max_articles)

\* the deduplicated entries of a category: more of them than main asks for
UniqueEntryLists == {[i \in 1..MaxUnique |-> i]}

NoData == [date |-> -1, generated_at |-> -1, ai |-> <<>>, minpaku |-> <<>>, rental |-> <<>>]

\* the wall clock advances
ClockTick ==
    /\ clock < MaxClock
    /\ clock' = clock + 1
    /\ UNCHANGED <<clockResets, pc, news_data, newsJson, archiveDir, indexJson>>
    /\ UNCHANGED <<idxVars, fnVars>>

\* the wall clock is set back (an adjustment of the system time)
ClockSetBack ==
    /\ clockResets < MaxClockResets
    /\ \E c \in 0..(clock - 1) : clock' = c
    /\ clockResets' = clockResets + 1
    /\ UNCHANGED <<pc, news_data, newsJson, archiveDir, indexJson>>
    /\ UNCHANGED <<idxVars, fnVars>>

\* main, lines 538-556: read the clock, build the empty envelope
MainStart ==
    /\ pc = "idle"
    /\ news_data' = [date |-> TargetDate(clock), generated_at |-> clock,
                     ai |-> <<>>, minpaku |-> <<>>, rental |-> <<>>]
    /\ pc' = "ai"
    /\ UNCHANGED <<clock, clockResets, newsJson, archiveDir, indexJson>>
    /\ UNCHANGED <<idxVars, fnVars>>

NextPc(category) ==
    CASE category = "ai" -> "minpaku"
      [] category = "minpaku" -> "rental"
      [] category = "rental" -> "write_latest"

\* main, lines 558-562: one iteration of the loop over the categories
MainCategory ==
    /\ pc \in Range(Categories)
    /\ \E unique_entries \in UniqueEntryLists :
          news_data' = [news_data EXCEPT
                           ![pc] = ProcessedArticles(unique_entries, MaxArticles)]
    /\ pc' = NextPc(pc)
    /\ UNCHANGED <<clock, clockResets, newsJson, archiveDir, indexJson>>
    /\ UNCHANGED <<idxVars, fnVars>>

\* main, lines 565-567: json.dump to data/news.json
MainWriteLatest ==
    /\ pc = "write_latest"
    /\ newsJson' = <<news_data>>
    /\ pc' = "write_archive"
    /\ UNCHANGED <<clock, clockResets, news_data, archiveDir, indexJson>>
    /\ UNCHANGED <<idxVars, fnVars>>

\* the archive file named after the day of the run instead of the target date
WrittenArchiveRunDay(dir, date, data) ==
    [d \in (DOMAIN dir) \cup {date + 1} |-> IF d = date + 1 THEN data ELSE dir[d]]

\* the content of the archive directory after open(archive_path, "w") and json.dump
WrittenArchive(dir, date, data) ==
    [d \in (DOMAIN dir) \cup {date} |-> IF d = date THEN data ELSE dir[d]]

\* main, lines 571-573: json.dump to data/archive/<target_date>.json
MainWriteArchive ==
    /\ pc = "write_archive"
    /\ archiveDir' = WrittenArchive(archiveDir, news_data.date, news_data)
    /\ pc' = "update_index"
    /\ UNCHANGED <<clock, clockResets, news_data, newsJson, indexJson>>
    /\ UNCHANGED <<idxVars, fnVars>>

\* main, line 577: update_archive_index(target_date), and the end of the run
MainUpdateIndex ==
    /\ pc = "update_index"
    /\ update_archive_index(news_data.date)
    /\ pc' = "idle"
    /\ news_data' = NoData
    /\ UNCHANGED <<clock, clockResets, newsJson, archiveDir>>
    /\ UNCHANGED <<idxVars, fnVars>>

\* the process stops before it has finished (killed, or an uncaught exception)
MainStop ==
    /\ pc # "idle"
    /\ pc' = "idle"
    /\ news_data' = NoData
    /\ UNCHANGED <<clock, clockResets, newsJson, archiveDir, indexJson>>
    /\ UNCHANGED <<idxVars, fnVars>>

NoCall == [called |-> FALSE, present |-> FALSE, dropped |-> {}]

IdxInit ==
    /\ idxDay = MaxBack
    /\ idxResets = 0
    /\ idxEpoch = FALSE
    /\ idxLast = NoCall

MainInit ==
    /\ clock = TicksPerDay
    /\ clockResets = 0
    /\ pc = "idle"
    /\ news_data = NoData
    /\ newsJson = <<>>
    /\ archiveDir = <<>>

NoArgs == [fn |-> "none"]
NotDone == [done |-> FALSE]
Returned(value) == [done |-> TRUE, value |-> value]

Init ==
    /\ MainInit
    /\ indexJson \in {[exists |-> FALSE, dates |-> <<>>], [exists |-> TRUE, dates |-> <<>>]}
    /\ IdxInit
    /\ call = NoArgs
    /\ ret = NotDone

Next ==
    \/ ClockTick
    \/ ClockSetBack
    \/ MainStart
    \/ MainCategory
    \/ MainWriteLatest
    \/ MainWriteArchive
    \/ MainUpdateIndex
    \/ MainStop

Spec == Init /\ [][Next]_vars

\* ------------------------------------------------------------- SpecIndex
\* Calls of update_archive_index on an index file that starts absent or empty.
\* The caller's date moves forward a day at a time once a call has been made
\* with it, may go back by a few days a bounded number of times, and may fall
\* back to day 0 once (a system clock that lost its setting).

\* update_archive_index(date_str) with date_str = idxDay
IdxCall ==
    /\ update_archive_index(idxDay)
    /\ idxLast' = [called |-> TRUE,
                   present |-> idxDay \in Range(LoadedIndex),
                   dropped |-> (Range(LoadedIndex) \cup {idxDay})
                                  \ Range(UpdatedIndex(LoadedIndex, idxDay))]
    /\ UNCHANGED <<idxDay, idxResets, idxEpoch>>
    /\ UNCHANGED <<mainVars, fnVars>>

\* the next call will be made with the following date
IdxNextDay ==
    /\ idxDay < NumDays
    /\ idxDay \in Range(LoadedIndex)
    /\ idxDay' = idxDay + 1
    /\ idxLast' = NoCall
    /\ UNCHANGED <<idxResets, idxEpoch, indexJson>>
    /\ UNCHANGED <<mainVars, fnVars>>

\* the next call will be made with a date a few days earlier
IdxBack ==
    /\ idxResets < MaxIdxResets
    /\ \E k \in 1..MaxBack : idxDay - k >= 0 /\ idxDay' = idxDay - k
    /\ idxResets' = idxResets + 1
    /\ idxLast' = NoCall
    /\ UNCHANGED <<idxEpoch, indexJson>>
    /\ UNCHANGED <<mainVars, fnVars>>

\* the next call will be made with day 0
IdxBackToEpoch ==
    /\ ~idxEpoch
    /\ idxDay > 0
    /\ idxDay' = 0
    /\ idxEpoch' = TRUE
    /\ idxLast' = NoCall
    /\ UNCHANGED <<idxResets, indexJson>>
    /\ UNCHANGED <<mainVars, fnVars>>

NextIndex ==
    \/ IdxCall
    \/ IdxNextDay
    \/ IdxBack
    \/ IdxBackToEpoch

SpecIndex == Init /\ [][NextIndex]_vars

\* -------------------------------------------------------------- SpecDate
\* is_published_on_date(published_str, target_date).  A feed timestamp is
\* the text of its fields: [form, date, minute, zone], where form is "empty",
\* "garbage", "rfc" (RFC 2822, "Mon, 01 Jan 2024 15:00:00 GMT") or "iso"
\* ("2024-01-01T15:00:00Z"), date is <<year, month, day>>, minute is the
\* time of day in minutes and zone is the zone text.  A date string
\* "%Y-%m-%d" is its <<year, month, day>>.

Years == 2023..2025

IsLeap(y) == (y % 4 = 0) /\ ((y % 100 # 0) \/ (y % 400 = 0))

DaysInMonth(y, m) ==
    IF m = 2 THEN (IF IsLeap(y) THEN 29 ELSE 28)
    ELSE IF m \in {4, 6, 9, 11} THEN 30 ELSE 31

RECURSIVE DaysBeforeMonth(_, _)
DaysBeforeMonth(y, m) ==
    IF m = 1 THEN 0 ELSE DaysBeforeMonth(y, m - 1) + DaysInMonth(y, m - 1)

DaysBeforeYear(y) ==
    ((y - 1) * 365) + ((y - 1) \div 4) - ((y - 1) \div 100) + ((y - 1) \div 400)

\* date.toordinal()
ToOrdinal(date) == DaysBeforeYear(date[1]) + DaysBeforeMonth(date[1], date[2]) + date[3]

CivilDates ==
    {<<y, m, d>> : y \in Years, m \in 1..12, d \in 1..31} \ 
        {t \in {<<y, m, d>> : y \in Years, m \in 1..12, d \in 29..31} :
            t[3] > DaysInMonth(t[1], t[2])}

\* date.fromordinal()
FromOrdinal(n) == CHOOSE t \in CivilDates : ToOrdinal(t) = n

MinutesPerDay == 1440
JstOffset == 540      \* timezone(timedelta(hours=9)), in minutes

NoDatetime == [ok |-> FALSE]

\* the utcoffset a zone text stands for, in minutes
ZoneMinutes(zone) ==
    CASE zone \in {"GMT", "+0000", "Z"} -> 0
      [] zone \in {"+0900", "+09:00"} -> 540
      [] zone \in {"-0500", "-05:00"} -> -300
      [] zone = "+0530" -> 330
      [] OTHER -> 0

\* email.utils.parsedate_to_datetime: a zone of -0000, or none, gives a naive
\* datetime; anything that is not an RFC 2822 date raises
ParsedateToDatetime(published) ==
    IF published.form = "rfc"
    THEN [ok |-> TRUE, date |-> published.date, minute |-> published.minute,
          aware |-> published.zone \notin {"", "-0000"},
          utcoffset |-> ZoneMinutes(published.zone)]
    ELSE NoDatetime

\* datetime.fromisoformat(published_str.replace("Z", "+00:00"))
FromIsoformat(published) ==
    IF published.form = "iso"
    THEN [ok |-> TRUE, date |-> published.date, minute |-> published.minute,
          aware |-> published.zone # "",
          utcoffset |-> ZoneMinutes(published.zone)]
    ELSE NoDatetime

parse_published_datetime(published) ==
    IF published.form = "empty"
    THEN NoDatetime
    ELSE IF ParsedateToDatetime(published).ok
         THEN ParsedateToDatetime(published)
         ELSE FromIsoformat(published)

\* dt.replace(tzinfo=tz): the same fields, read at another utcoffset
ReplaceTzinfo(dt, offset) == [dt EXCEPT !.aware = TRUE, !.utcoffset = offset]

\* the conversion without the shift of the instant
AstimezoneNoShift(dt, offset) == ReplaceTzinfo(dt, offset)

\* dt.astimezone(tz): the same instant at another utcoffset
Astimezone(dt, offset) ==
    LET total == (ToOrdinal(dt.date) * MinutesPerDay) + dt.minute - dt.utcoffset + offset
    IN [ok |-> TRUE, date |-> FromOrdinal(total \div MinutesPerDay),
        minute |-> total % MinutesPerDay, aware |-> TRUE, utcoffset |-> offset]

\* lines 128-132: dt_jst
Localized(dt) ==
    IF dt.aware THEN Astimezone(dt, JstOffset) ELSE ReplaceTzinfo(dt, JstOffset)

is_published_on_date(published, target_date) ==
    LET dt == parse_published_datetime(published)
    IN IF ~dt.ok
       THEN FALSE
       ELSE Localized(dt).date = target_date

SampleDates == {<<2023, 12, 31>>, <<2024, 1, 1>>, <<2024, 2, 28>>, <<2024, 2, 29>>,
                <<2024, 3, 1>>}
SampleMinutes == {0, 899, 900, 1439}
RfcZones == {"", "GMT", "-0000", "+0900", "-0500", "+0530"}
IsoZones == {"", "Z", "+09:00", "-05:00"}

NoFields == [date |-> <<2024, 1, 1>>, minute |-> 0, zone |-> ""]

Timestamps ==
    {[form |-> f, date |-> NoFields.date, minute |-> NoFields.minute, zone |-> NoFields.zone] :
        f \in {"empty", "garbage"}}
    \cup [form : {"rfc"}, date : SampleDates, minute : SampleMinutes, zone : RfcZones]
    \cup [form : {"iso"}, date : SampleDates, minute : SampleMinutes, zone : IsoZones]

DateInit ==
    /\ call \in [fn : {"is_published_on_date"}, published : Timestamps,
                  target_date : SampleDates]
    /\ ret = NotDone

InitDate ==
    /\ MainInit
    /\ indexJson = [exists |-> FALSE, dates |-> <<>>]
    /\ IdxInit
    /\ DateInit

DateCall ==
    /\ call.fn = "is_published_on_date"
    /\ ~ret.done
    /\ ret' = Returned(is_published_on_date(call.published, call.target_date))
    /\ UNCHANGED <<call, mainVars, indexJson, idxVars>>

NextDate == DateCall

SpecDate == InitDate /\ [][NextDate]_vars

\* ------------------------------------------------------------- SpecFetch
\* fetch_rss_entries(feed_url, max_entries, target_date).  The feed is what
\* feedparser.parse returns for the URL: [error, entries], each entry with a
\* title and the text of its published field.

MaxFeedLen == 4       \* longest feed

NoTarget == <<>>      \* target_date=None

FeedTimestamps ==
    {t \in Timestamps :
        \/ t.form \in {"empty", "garbage"}
        \/ /\ t.form = "rfc"
           /\ t.date = <<2024, 2, 29>>
           /\ t.minute \in {899, 900}
           /\ t.zone = "GMT"}

FeedEntries == [title : {"t"}, published : FeedTimestamps]

RECURSIVE FeedLists(_)
FeedLists(n) ==
    IF n = 0 THEN {<<>>}
    ELSE FeedLists(n - 1) \cup
         {Append(f, e) : f \in {g \in FeedLists(n - 1) : Len(g) = n - 1}, e \in FeedEntries}

\* the test of lines 262-264 with the result of the date test inverted
SkippedInverted(entry, target_date) ==
    /\ target_date # NoTarget
    /\ entry.published.form # "empty"
    /\ is_published_on_date(entry.published, target_date)

\* lines 262-264: the entry is passed over
Skipped(entry, target_date) ==
    /\ target_date # NoTarget
    /\ entry.published.form # "empty"
    /\ ~is_published_on_date(entry.published, target_date)

\* lines 258-276: the loop, from the entries still to visit
RECURSIVE FetchLoop(_, _, _, _)
FetchLoop(rest, entries, max_entries, target_date) ==
    IF rest = <<>>
    THEN entries
    ELSE IF Skipped(Head(rest), target_date)
         THEN FetchLoop(Tail(rest), entries, max_entries, target_date)
         ELSE LET appended == Append(entries, Head(rest))
              IN IF Len(appended) >= max_entries
                 THEN appended
                 ELSE FetchLoop(Tail(rest), appended, max_entries, target_date)

fetch_rss_entries(feed, max_entries, target_date) ==
    IF feed.error
    THEN <<>>
    ELSE FetchLoop(Take(feed.entries, max_entries * 3), <<>>, max_entries, target_date)

FetchInit ==
    /\ call \in [fn : {"fetch_rss_entries"},
                  feed : [error : BOOLEAN, entries : FeedLists(MaxFeedLen)],
                  max_entries : {1, 2},
                  target_date : {NoTarget, <<2024, 2, 29>>, <<2024, 3, 1>>}]
    /\ ret = NotDone

InitFetch ==
    /\ MainInit
    /\ indexJson = [exists |-> FALSE, dates |-> <<>>]
    /\ IdxInit
    /\ FetchInit

FetchCall ==
    /\ call.fn = "fetch_rss_entries"
    /\ ~ret.done
    /\ ret' = Returned(fetch_rss_entries(call.feed, call.max_entries, call.target_date))
    /\ UNCHANGED <<call, mainVars, indexJson, idxVars>>

NextFetch == FetchCall

SpecFetch == InitFetch /\ [][NextFetch]_vars

\* ------------------------------------------------------------- SpecDedup
\* process_news_category, lines 465-472: the removal of duplicate titles.
\* A title is the sequence of its characters; "Idot" is U+0130, whose
\* lower-case form is the two characters "i" and "dot" (U+0069 U+0307).

TitleKeyLen == 50     \* entry["title"].lower()[:50]
MaxEntries == 3       \* longest list of collected entries

\* str.lower() of one character
LowerChar(c) ==
    CASE c = "A" -> <<"a">>
      [] c = "B" -> <<"b">>
      [] c = "Idot" -> <<"i", "dot">>
      [] OTHER -> <<c>>

\* str.lower()
RECURSIVE Lower(_)
Lower(s) == IF s = <<>> THEN <<>> ELSE LowerChar(Head(s)) \o Lower(Tail(s))

\* the key without .lower()
TitleKeyCaseSensitive(title) == Take(title, TitleKeyLen)

\* line 469: title_key
TitleKey(title) == Take(Lower(title), TitleKeyLen)

\* lines 468-472: the loop, from the entries still to visit
RECURSIVE DedupLoop(_, _, _)
DedupLoop(rest, seen_titles, unique_entries) ==
    IF rest = <<>>
    THEN unique_entries
    ELSE IF TitleKey(Head(rest).title) \notin seen_titles
         THEN DedupLoop(Tail(rest), seen_titles \cup {TitleKey(Head(rest).title)},
                        Append(unique_entries, Head(rest)))
         ELSE DedupLoop(Tail(rest), seen_titles, unique_entries)

UniqueEntries(all_entries) == DedupLoop(all_entries, {}, <<>>)

Pad(n) == [i \in 1..n |-> "x"]

\* short titles, and titles whose last three characters are the 49th to 51st
Titles ==
    {<<c>> : c \in {"a", "A", "b"}}
    \cup {Pad(TitleKeyLen - 2) \o <<"a", c, d>> : c \in {"a", "A", "b"}, d \in {"a", "b"}}
    \cup {<<"Idot">> \o Pad(TitleKeyLen - 3) \o <<"a", c, "a">> : c \in {"a", "b"}}

RECURSIVE TitleLists(_)
TitleLists(n) ==
    IF n = 0 THEN {<<>>}
    ELSE TitleLists(n - 1) \cup
         {Append(l, t) : l \in {g \in TitleLists(n - 1) : Len(g) = n - 1}, t \in Titles}

\* the collected entries: the link of an entry is its position in the list
EntriesOf(titles) == [i \in 1..Len(titles) |-> [title |-> titles[i], link |-> i]]

DedupInit ==
    /\ call \in {[fn |-> "process_news_category", all_entries |-> EntriesOf(l)] :
                    l \in TitleLists(MaxEntries)}
    /\ ret = NotDone

InitDedup ==
    /\ MainInit
    /\ indexJson = [exists |-> FALSE, dates |-> <<>>]
    /\ IdxInit
    /\ DedupInit

DedupCall ==
    /\ call.fn = "process_news_category"
    /\ ~ret.done
    /\ ret' = Returned(UniqueEntries(call.all_entries))
    /\ UNCHANGED <<call, mainVars, indexJson, idxVars>>

NextDedup == DedupCall

SpecDedup == InitDedup /\ [][NextDedup]_vars

\* ----------------------------------------------------------- SpecSummary
\* generate_ai_summary, generate_minpaku_summary, generate_rental_summary
\* and call_gemini_api.  A string is the sequence of its characters; the
\* text the API returns is a sequence of tokens: "{", "}", "," and
\*   "k"  a member name with its colon ("summary":),
\*   "w"  a word: a scalar value after a member name, prose elsewhere.

MaxTextLen == 4       \* longest text the API returns, in tokens
SummaryCut == 200     \* entry['summary'][:200]
DetailCut == 300      \* article_content[:300]
NumComments == 7      \* canned comments of each category

Tokens == {"{", "}", "k", "w", ","}

RECURSIVE Texts(_)
Texts(n) ==
    IF n = 0 THEN {<<>>}
    ELSE Texts(n - 1) \cup
         {Append(t, c) : t \in {u \in Texts(n - 1) : Len(u) = n - 1}, c \in Tokens}

\* json.loads on a text that starts with "{": the position after the value
\* that starts at i, or 0 when there is none (JSONDecodeError)
RECURSIVE JsonValueEnd(_, _)
RECURSIVE JsonMembersEnd(_, _)
JsonMembersEnd(s, i) ==
    IF i + 1 > Len(s) \/ s[i] # "k"
    THEN 0
    ELSE LET j == JsonValueEnd(s, i + 1)
         IN IF j = 0 \/ j > Len(s) THEN 0
            ELSE IF s[j] = "}" THEN j + 1
            ELSE IF s[j] = "," THEN JsonMembersEnd(s, j + 1)
            ELSE 0

JsonValueEnd(s, i) ==
    IF i > Len(s) THEN 0
    ELSE IF s[i] = "w" THEN i + 1
    ELSE IF s[i] = "{"
         THEN IF i + 1 <= Len(s) /\ s[i + 1] = "}"
              THEN i + 2
              ELSE JsonMembersEnd(s, i + 1)
    ELSE 0

\* json.loads(text) returns (the whole text is one value)
JsonLoads(text) == JsonValueEnd(text, 1) = Len(text) + 1

\* re.search(r'\{[\s\S]*\}', result): the span from the first "{" to the
\* last "}" after it, or <<>> when there is no match
RECURSIVE FirstIndex(_, _, _)
FirstIndex(s, c, i) ==
    IF i > Len(s) THEN 0 ELSE IF s[i] = c THEN i ELSE FirstIndex(s, c, i + 1)

RECURSIVE LastIndex(_, _, _)
LastIndex(s, c, i) ==
    IF i < 1 THEN 0 ELSE IF s[i] = c THEN i ELSE LastIndex(s, c, i - 1)

JsonMatch(result) ==
    LET first == FirstIndex(result, "{", 1)
        last == LastIndex(result, "}", Len(result))
    IN IF first > 0 /\ last > first THEN SubSeq(result, first, last) ELSE <<>>

NoText == [some |-> FALSE, text |-> <<>>]

\* call_gemini_api: None, or the text of the first candidate
call_gemini_api(gemini) ==
    IF gemini.key = ""
    THEN NoText
    ELSE IF gemini.outcome = "raises"
         THEN NoText
         ELSE IF gemini.status_code = 200
              THEN IF gemini.has_text
                   THEN [some |-> TRUE, text |-> gemini.text]
                   ELSE NoText
              ELSE NoText

FallbackCategory(category) ==
    IF category \in {"ai", "minpaku", "rental"} THEN category ELSE "ai"

\* get_fallback_comment: what random.choice can return
get_fallback_comment(category) ==
    {[category |-> FallbackCategory(category), number |-> n] : n \in 1..NumComments}

OpenQuote == 12300    \* the character before the title in the fallback sentence
SentenceEnd == 12301  \* the closing quote and the rest of the fallback sentence

\* lines 364-370: the fallback records
FallbackRecords(category, entry, article_content) ==
    {[summary |-> IF entry.summary # <<>>
                  THEN Take(entry.summary, SummaryCut)
                  ELSE <<OpenQuote>> \o entry.title \o <<SentenceEnd>>,
      detail |-> IF article_content # <<>> THEN Take(article_content, DetailCut) ELSE <<>>,
      aoComment |-> c] : c \in get_fallback_comment(category)}

\* lines 352-370: what the function can return
GeneratedSummaries(category, entry, article_content, gemini) ==
    LET result == call_gemini_api(gemini)
    IN IF /\ result.some
          /\ result.text # <<>>
          /\ JsonMatch(result.text) # <<>>
          /\ JsonLoads(JsonMatch(result.text))
       THEN {[json |-> JsonMatch(result.text)]}
       ELSE FallbackRecords(category, entry, article_content)

\* the rental function with the comments of the minpaku function
generate_rental_summary_minpaku(entry, article_content, gemini) ==
    GeneratedSummaries("minpaku", entry, article_content, gemini)

generate_ai_summary(entry, article_content, gemini) ==
    GeneratedSummaries("ai", entry, article_content, gemini)

generate_minpaku_summary(entry, article_content, gemini) ==
    GeneratedSummaries("minpaku", entry, article_content, gemini)

generate_rental_summary(entry, article_content, gemini) ==
    GeneratedSummaries("rental", entry, article_content, gemini)

Chars(n) == [i \in 1..n |-> i]

GeminiCases ==
    {[key |-> "", outcome |-> "raises", status_code |-> 0, has_text |-> FALSE, text |-> <<>>],
     [key |-> "set", outcome |-> "raises", status_code |-> 0, has_text |-> FALSE, text |-> <<>>],
     [key |-> "set", outcome |-> "http", status_code |-> 500, has_text |-> FALSE, text |-> <<>>],
     [key |-> "set", outcome |-> "http", status_code |-> 200, has_text |-> FALSE, text |-> <<>>]}
    \cup {[key |-> k, outcome |-> "http", status_code |-> 200, has_text |-> TRUE, text |-> t] :
             k \in {"", "set"}, t \in Texts(MaxTextLen)}

\* an entry and the content of its article: both empty, both short, both
\* longer than the cuts
Articles ==
    {[entry |-> [title |-> Chars(2), summary |-> Chars(n[1])], article_content |-> Chars(n[2])] :
        n \in {<<0, 0>>, <<20, 30>>, <<SummaryCut + 1, DetailCut + 1>>}}

SummaryInit ==
    /\ call \in {[fn |-> f, entry |-> a.entry, article_content |-> a.article_content,
                   gemini |-> g] :
                    f \in {"generate_ai_summary", "generate_minpaku_summary",
                           "generate_rental_summary"},
                    a \in Articles, g \in GeminiCases}
    /\ ret = NotDone

InitSummary ==
    /\ MainInit
    /\ indexJson = [exists |-> FALSE, dates |-> <<>>]
    /\ IdxInit
    /\ SummaryInit

SummaryCallAi ==
    /\ call.fn = "generate_ai_summary"
    /\ ~ret.done
    /\ \E r \in generate_ai_summary(call.entry, call.article_content, call.gemini) :
          ret' = Returned(r)
    /\ UNCHANGED <<call, mainVars, indexJson, idxVars>>

SummaryCallMinpaku ==
    /\ call.fn = "generate_minpaku_summary"
    /\ ~ret.done
    /\ \E r \in generate_minpaku_summary(call.entry, call.article_content, call.gemini) :
          ret' = Returned(r)
    /\ UNCHANGED <<call, mainVars, indexJson, idxVars>>

SummaryCallRental ==
    /\ call.fn = "generate_rental_summary"
    /\ ~ret.done
    /\ \E r \in generate_rental_summary(call.entry, call.article_content, call.gemini) :
          ret' = Returned(r)
    /\ UNCHANGED <<call, mainVars, indexJson, idxVars>>

NextSummary ==
    \/ SummaryCallAi
    \/ SummaryCallMinpaku
    \/ SummaryCallRental

SpecSummary == InitSummary /\ [][NextSummary]_vars

\* ------------------------------------------------------------- SpecClean
\* clean_html_text(text).  A string is the sequence of its characters, with
\* one character standing for each of these: "s" the word script, "y" the
\* word style, "h" the prefix http://, "L" the entity &lt;, "N" the entity
\* &nbsp;, "nbsp" the character U+00A0 (white space for \s and for strip).

MaxSegments == 5      \* most tags and texts of a script/style input
MaxChars == 5         \* longest input made of single characters

IsSpace(c) == c \in {" ", "nbsp"}

\* html.unescape of one character
UnescapeChar(c) ==
    CASE c = "L" -> "<"
      [] c = "N" -> "nbsp"
      [] OTHER -> c

\* html.unescape
Unescape(text) == [i \in 1..Len(text) |-> UnescapeChar(text[i])]

\* the first position from i on that holds c, or 0
FirstChar(text, c, i) == FirstIndex(text, c, i)

\* the first position from i on where </word> starts, or 0
RECURSIVE FirstClose(_, _, _)
FirstClose(text, word, i) ==
    IF i + 3 > Len(text) THEN 0
    ELSE IF text[i] = "<" /\ text[i + 1] = "/" /\ text[i + 2] = word /\ text[i + 3] = ">"
         THEN i
         ELSE FirstClose(text, word, i + 1)

\* the position after the match of <word[^>]*>.*?</word> that starts at i,
\* or 0 when there is none
ElementEnd(text, word, i) ==
    IF i + 1 > Len(text) \/ text[i] # "<" \/ text[i + 1] # word
    THEN 0
    ELSE LET e == FirstChar(text, ">", i + 2)
         IN IF e = 0 THEN 0
            ELSE LET c == FirstClose(text, word, e + 1)
                 IN IF c = 0 THEN 0 ELSE c + 4

\* re.sub(r'<word[^>]*>.*?</word>', '', text, flags=re.DOTALL), from position i
RECURSIVE RemoveElementsFrom(_, _, _)
RemoveElementsFrom(text, word, i) ==
    IF i > Len(text) THEN <<>>
    ELSE IF ElementEnd(text, word, i) # 0
         THEN RemoveElementsFrom(text, word, ElementEnd(text, word, i))
         ELSE <<text[i]>> \o RemoveElementsFrom(text, word, i + 1)

RemoveElements(text, word) == RemoveElementsFrom(text, word, 1)

\* the position after the match of <[^>]+> that starts at i, or 0
TagEnd(text, i) ==
    IF text[i] # "<" THEN 0
    ELSE LET e == FirstChar(text, ">", i + 1)
         IN IF e >= i + 2 THEN e + 1 ELSE 0

\* re.sub(r"<[^>]+>", " ", text), from position i
RECURSIVE RemoveTagsFrom(_, _)
RemoveTagsFrom(text, i) ==
    IF i > Len(text) THEN <<>>
    ELSE IF TagEnd(text, i) # 0
         THEN <<" ">> \o RemoveTagsFrom(text, TagEnd(text, i))
         ELSE <<text[i]>> \o RemoveTagsFrom(text, i + 1)

RemoveTags(text) == RemoveTagsFrom(text, 1)

\* the first position from i on that holds white space, or Len(text) + 1
RECURSIVE FirstSpace(_, _)
FirstSpace(text, i) ==
    IF i > Len(text) THEN i ELSE IF IsSpace(text[i]) THEN i ELSE FirstSpace(text, i + 1)

\* re.sub(r'https?://\S+', '', text), from position i
RECURSIVE RemoveUrlsFrom(_, _)
RemoveUrlsFrom(text, i) ==
    IF i > Len(text) THEN <<>>
    ELSE IF text[i] = "h" /\ i + 1 <= Len(text) /\ ~IsSpace(text[i + 1])
         THEN RemoveUrlsFrom(text, FirstSpace(text, i + 1))
         ELSE <<text[i]>> \o RemoveUrlsFrom(text, i + 1)

RemoveUrls(text) == RemoveUrlsFrom(text, 1)

\* the first position from i on that holds no white space, or Len(text) + 1
RECURSIVE FirstNonSpace(_, _)
FirstNonSpace(text, i) ==
    IF i > Len(text) THEN i ELSE IF IsSpace(text[i]) THEN FirstNonSpace(text, i + 1) ELSE i

\* re.sub(r"\s+", " ", text), from position i
RECURSIVE CollapseFrom(_, _)
CollapseFrom(text, i) ==
    IF i > Len(text) THEN <<>>
    ELSE IF IsSpace(text[i])
         THEN <<" ">> \o CollapseFrom(text, FirstNonSpace(text, i))
         ELSE <<text[i]>> \o CollapseFrom(text, i + 1)

Collapse(text) == CollapseFrom(text, 1)

\* the last position up to i that holds no white space, or 0
RECURSIVE LastNonSpace(_, _)
LastNonSpace(text, i) ==
    IF i < 1 THEN 0 ELSE IF IsSpace(text[i]) THEN LastNonSpace(text, i - 1) ELSE i

\* str.strip()
Strip(text) == SubSeq(text, FirstNonSpace(text, 1), LastNonSpace(text, Len(text)))

clean_html_text(text) ==
    IF text = <<>>
    THEN <<>>
    ELSE LET unescaped == Unescape(text)
             no_script == RemoveElements(unescaped, "s")
             no_style == RemoveElements(no_script, "y")
             no_tags == RemoveTags(no_style)
             no_urls == RemoveUrls(no_tags)
         IN Strip(Collapse(no_urls))

Segments ==
    {<<"<", "s", ">">>, <<"<", "/", "s", ">">>, <<"<", "y", ">">>, <<"<", "/", "y", ">">>,
     <<"q">>}

RECURSIVE SegmentTexts(_)
SegmentTexts(n) ==
    IF n = 0 THEN {<<>>}
    ELSE SegmentTexts(n - 1) \cup {t \o g : t \in SegmentTexts(n - 1), g \in Segments}

CleanChars == {"<", ">", "a", " ", "h", "L", "N"}

RECURSIVE CharTexts(_)
CharTexts(n) ==
    IF n = 0 THEN {<<>>}
    ELSE CharTexts(n - 1) \cup
         {Append(t, c) : t \in {u \in CharTexts(n - 1) : Len(u) = n - 1}, c \in CleanChars}

CleanInit ==
    /\ call \in [fn : {"clean_html_text"},
                  text : SegmentTexts(MaxSegments) \cup CharTexts(MaxChars)]
    /\ ret = NotDone

InitClean ==
    /\ MainInit
    /\ indexJson = [exists |-> FALSE, dates |-> <<>>]
    /\ IdxInit
    /\ CleanInit

CleanCall ==
    /\ call.fn = "clean_html_text"
    /\ ~ret.done
    /\ ret' = Returned(clean_html_text(call.text))
    /\ UNCHANGED <<call, mainVars, indexJson, idxVars>>

NextClean == CleanCall

SpecClean == InitClean /\ [][NextClean]_vars

\* ------------------------------------------------------------------ claims

\* C4: starting from an absent or empty index file, after any sequence of
\* update_archive_index calls the stored index has at most 100 entries.
IndexAtMost100 == Len(indexJson.dates) <= 100

\* C4 witness: the index is full and the call just made dropped an entry.
IndexFullAndDropped ==
    /\ idxLast.called
    /\ Len(indexJson.dates) = 100
    /\ idxLast.dropped # {}

\* C5: starting from an absent or empty index file, after any sequence of
\* update_archive_index calls, repeated dates included, every date occurs at
\* most once in the stored index.
IndexNoDuplicates == Cardinality(Range(indexJson.dates)) = Len(indexJson.dates)

\* C5 witness: the call just made repeated a date the index already held.
IndexRepeatedCall ==
    /\ idxLast.called
    /\ idxLast.present
    /\ Len(indexJson.dates) >= 2

\* C6 (as claimed): after any sequence of calls the stored index is sorted by
\* date, newest first, and an entry dropped by the cap is older than every
\* date that is kept.
IndexNewestFirst ==
    /\ \A i \in 1..Len(indexJson.dates) : \A j \in 1..Len(indexJson.dates) :
          i < j => indexJson.dates[i] > indexJson.dates[j]
    /\ \A d \in idxLast.dropped : \A e \in Range(indexJson.dates) : d < e

\* C7 (as claimed): once the archive file of a date has been written, no later
\* step of any run changes its content.
ArchiveSlotImmutable ==
    [][\A d \in DOMAIN archiveDir :
          d \in DOMAIN archiveDir' /\ archiveDir'[d] = archiveDir[d]]_vars

\* C8: in every state reachable by runs of main, a run that stops between two
\* of its writes included, every date in the stored index has an archive file.
IndexedDatesHaveFiles ==
    \A d \in Range(indexJson.dates) : d \in DOMAIN archiveDir

\* C8 witness: a date is indexed, and a run has stopped after writing the
\* archive file of another date and before updating the index.
IndexedAndStoppedBeforeIndex ==
    /\ pc = "idle"
    /\ indexJson.dates # <<>>
    /\ \E d \in DOMAIN archiveDir : d \notin Range(indexJson.dates)

\* the instant a timestamp with a UTC offset denotes, in minutes, on the
\* JST wall clock
JstMinutes(published) ==
    (ToOrdinal(published.date) * 1440) + published.minute
        - ZoneMinutes(published.zone) + (9 * 60)

CarriesOffset(published) ==
    /\ published.form \in {"rfc", "iso"}
    /\ published.zone \notin {"", "-0000"}

\* C3: for a parsable timestamp with a UTC offset the result is true exactly
\* when the instant, shifted to UTC+9, lies within the 24 hours of
\* target_date (so 15:00 UTC or later is the next calendar day); a timestamp
\* without an offset is read as JST; an empty or unparsable one gives false.
PublishedOnJstDate ==
    ret.done /\ call.fn = "is_published_on_date" =>
        LET p == call.published
            day0 == ToOrdinal(call.target_date) * 1440
        IN /\ CarriesOffset(p) =>
                (ret.value <=> (day0 <= JstMinutes(p) /\ JstMinutes(p) < day0 + 1440))
           /\ (CarriesOffset(p) /\ ZoneMinutes(p.zone) = 0 /\ p.minute >= 15 * 60) =>
                (ret.value <=> ToOrdinal(call.target_date) = ToOrdinal(p.date) + 1)
           /\ (p.form \in {"rfc", "iso"} /\ ~CarriesOffset(p)) =>
                (ret.value <=> p.date = call.target_date)
           /\ p.form \in {"empty", "garbage"} => ret.value = FALSE

\* C3 witness: a timestamp of 15:00 UTC on the last day of a month was found
\* to be published on the first day of the next month.
PublishedNextDayInJst ==
    /\ ret.done
    /\ call.fn = "is_published_on_date"
    /\ call.published.zone = "GMT"
    /\ call.published.minute = 900
    /\ call.published.date = <<2024, 2, 29>>
    /\ call.target_date = <<2024, 3, 1>>
    /\ ret.value = TRUE

\* C10 (as claimed): for a non-empty target_date every entry returned by
\* fetch_rss_entries was published on target_date in JST.
FetchedOnTargetDate ==
    (ret.done /\ call.fn = "fetch_rss_entries" /\ call.target_date # NoTarget) =>
        \A i \in 1..Len(ret.value) :
            is_published_on_date(ret.value[i].published, call.target_date)

\* C10 (amended): for a non-empty target_date every entry returned by
\* fetch_rss_entries either has an empty published value or was published on
\* target_date in JST.
FetchedOnTargetDateOrUndated ==
    (ret.done /\ call.fn = "fetch_rss_entries" /\ call.target_date # NoTarget) =>
        \A i \in 1..Len(ret.value) :
            \/ ret.value[i].published.form = "empty"
            \/ is_published_on_date(ret.value[i].published, call.target_date)

\* C10 witness: a feed holding dated entries of another day, an unparsable
\* date and an undated entry was fetched for a target date, and an entry of
\* the target date was returned.
FetchedFiltered ==
    /\ ret.done
    /\ call.fn = "fetch_rss_entries"
    /\ call.target_date # NoTarget
    /\ \E i \in 1..Len(call.feed.entries) :
          /\ call.feed.entries[i].published.form = "rfc"
          /\ ~is_published_on_date(call.feed.entries[i].published, call.target_date)
    /\ \E i \in 1..Len(call.feed.entries) : call.feed.entries[i].published.form = "garbage"
    /\ \E i \in 1..Len(call.feed.entries) : call.feed.entries[i].published.form = "empty"
    /\ \E i \in 1..Len(ret.value) : ret.value[i].published.form = "rfc"

\* the first 50 characters of the lower-cased title
LoweredPrefix(title) ==
    LET low == Lower(title)
    IN [i \in 1..(IF Len(low) < 50 THEN Len(low) ELSE 50) |-> low[i]]

\* C2: the deduplicated list holds no two entries with equal lower-cased
\* 50-character title prefixes, holds the first entry (in feed order) of
\* every distinct prefix, and keeps the entries in their original order.
DedupByLoweredPrefix ==
    (ret.done /\ call.fn = "process_news_category") =>
        LET all == call.all_entries
            out == ret.value
        IN /\ \A i \in 1..Len(out) : \A j \in 1..Len(out) :
                i # j => LoweredPrefix(out[i].title) # LoweredPrefix(out[j].title)
           /\ \A i \in 1..Len(all) :
                (\A j \in 1..(i - 1) :
                    LoweredPrefix(all[j].title) # LoweredPrefix(all[i].title))
                    => \E k \in 1..Len(out) : out[k] = all[i]
           /\ \A k \in 1..Len(out) : \E i \in 1..Len(all) : out[k] = all[i]
           /\ \A i \in 1..Len(out) : \A j \in 1..Len(out) :
                i < j => out[i].link < out[j].link

\* C2 witness: of three collected entries, one that differs from an earlier
\* one only in case or after the 50th character was removed, and one that
\* differs at the 50th character was kept.
DedupDroppedAndKept ==
    /\ ret.done
    /\ call.fn = "process_news_category"
    /\ Len(call.all_entries) = 3
    /\ Len(ret.value) = 2
    /\ \A i \in 1..3 : Len(call.all_entries[i].title) > 50
    /\ \A i \in 1..3 : \A j \in 1..3 :
          i # j => call.all_entries[i].title # call.all_entries[j].title

\* the category a summary function belongs to
OwnCategory(fn) ==
    CASE fn = "generate_ai_summary" -> "ai"
      [] fn = "generate_minpaku_summary" -> "minpaku"
      [] fn = "generate_rental_summary" -> "rental"

\* the API call gives no text: no key, an exception, a status other than 200
\* or a body without the text
GeminiFails(gemini) ==
    \/ gemini.key = ""
    \/ gemini.outcome = "raises"
    \/ gemini.status_code # 200
    \/ ~gemini.has_text

\* the text holds no "{" with a "}" after it, or what lies from the first "{"
\* to the last "}" is not JSON
NotParsable(text) ==
    LET opens == {i \in 1..Len(text) : text[i] = "{"}
        closes == {j \in 1..Len(text) : text[j] = "}"}
        spans == {<<i, j>> \in opens \X closes :
                     /\ i < j
                     /\ \A i2 \in opens : i <= i2
                     /\ \A j2 \in closes : j2 <= j}
    IN \A sp \in spans : ~JsonLoads(SubSeq(text, sp[1], sp[2]))

SummaryFunctions ==
    {"generate_ai_summary", "generate_minpaku_summary", "generate_rental_summary"}

\* C1: when the key is empty, the call fails or the text is not parsable
\* JSON, each summary function returns the fallback record: the entry summary
\* cut to 200 characters (the title sentence when it is empty), the article
\* content cut to 300 characters and a canned comment of its own category.
FallbackWhenNoJson ==
    (/\ ret.done
     /\ call.fn \in SummaryFunctions
     /\ (GeminiFails(call.gemini) \/ NotParsable(call.gemini.text))) =>
        /\ DOMAIN ret.value = {"summary", "detail", "aoComment"}
        /\ ret.value.summary =
              (IF Len(call.entry.summary) = 0
               THEN <<12300>> \o call.entry.title \o <<12301>>
               ELSE [i \in 1..(IF Len(call.entry.summary) < 200
                                THEN Len(call.entry.summary) ELSE 200) |->
                        call.entry.summary[i]])
        /\ ret.value.detail =
              [i \in 1..(IF Len(call.article_content) < 300
                          THEN Len(call.article_content) ELSE 300) |->
                  call.article_content[i]]
        /\ ret.value.aoComment.category = OwnCategory(call.fn)
        /\ ret.value.aoComment.number \in 1..7

\* C1 witness: the rental function was given a key and a 200 response whose
\* text has braces around something that is not JSON, with a summary and an
\* article longer than the cuts, and returned a fallback record.
FallbackOnBadJson ==
    /\ ret.done
    /\ call.fn = "generate_rental_summary"
    /\ call.gemini.key = "set"
    /\ call.gemini.status_code = 200
    /\ call.gemini.has_text
    /\ call.gemini.text = <<"{", "w", "}">>
    /\ Len(call.entry.summary) > 200
    /\ Len(call.article_content) > 300
    /\ "aoComment" \in DOMAIN ret.value

\* the tag <word> starts at position i
OpenAt(text, word, i) ==
    /\ i + 2 <= Len(text)
    /\ text[i] = "<" /\ text[i + 1] = word /\ text[i + 2] = ">"

\* the tag </word> starts at position j
CloseAt(text, word, j) ==
    /\ j + 3 <= Len(text)
    /\ text[j] = "<" /\ text[j + 1] = "/" /\ text[j + 2] = word /\ text[j + 3] = ">"

\* <word> starts at i and the first </word> after it starts at j
PairAt(text, word, i, j) ==
    /\ OpenAt(text, word, i)
    /\ j > i + 2
    /\ CloseAt(text, word, j)
    /\ \A k \in (i + 3)..(j - 1) : ~CloseAt(text, word, k)

\* position p lies between a <word> tag and the first </word> after it
Between(text, word, p) ==
    \E i \in 1..Len(text) : \E j \in 1..Len(text) :
        PairAt(text, word, i, j) /\ i + 2 < p /\ p < j

\* position p lies between a <style> tag that is not inside a script element
\* and the first </style> after it
BetweenStyle(text, p) ==
    \E i \in 1..Len(text) : \E j \in 1..Len(text) :
        /\ PairAt(text, "y", i, j) /\ i + 2 < p /\ p < j
        /\ ~Between(text, "s", i)

\* the result holds no "<", one or more characters other than ">", ">"
NoTagLeft(result) ==
    \A i \in 1..Len(result) : \A j \in 1..Len(result) :
        (result[i] = "<" /\ result[j] = ">" /\ j >= i + 2)
            => \E k \in (i + 1)..(j - 1) : result[k] = ">"

\* no white space at either end, and no two in a row
WhitespaceCollapsed(result) ==
    /\ result # <<>> => (~IsSpace(result[1]) /\ ~IsSpace(result[Len(result)]))
    /\ \A i \in 1..(Len(result) - 1) : ~(IsSpace(result[i]) /\ IsSpace(result[i + 1]))

\* C9 (as claimed): the result of clean_html_text holds no tag, none of the
\* text that was between a <script>...</script> or <style>...</style> pair
\* (the text "q" when it occurs nowhere else in the input; a pair is a tag
\* and the first closing tag after it, and a <style> inside a script element
\* is script text), no white space at either end and no two white-space
\* characters in a row.
CleanedAsClaimed ==
    (ret.done /\ call.fn = "clean_html_text") =>
        /\ NoTagLeft(ret.value)
        /\ (\A p \in 1..Len(call.text) :
                call.text[p] = "q" =>
                    (Between(call.text, "s", p) \/ BetweenStyle(call.text, p)))
              => "q" \notin Range(ret.value)
        /\ WhitespaceCollapsed(ret.value)

\* the three categories of the envelope have been processed
AllProcessed(data) ==
    \A i \in 1..Len(Categories) :
        \E unique_entries \in UniqueEntryLists :
            data[Categories[i]] = ProcessedArticles(unique_entries, MaxArticles)

\* C11: the step that completes a run of main leaves the latest file and the
\* archive file of the run's target date with the same envelope (the run's
\* date and generation time, each category list with at most 5 items) and
\* the target date in the archive index; the latest file is written only
\* after the three categories have been processed, the archive file only
\* after the latest file, and the index only after the archive file.
CompletedRunConsistent ==
    [][/\ MainUpdateIndex =>
            /\ news_data.date \in DOMAIN archiveDir'
            /\ newsJson' = <<archiveDir'[news_data.date]>>
            /\ newsJson'[1].date = news_data.date
            /\ newsJson'[1].generated_at = news_data.generated_at
            /\ \A i \in 1..Len(Categories) :
                  Len(newsJson'[1][Categories[i]]) <= MaxArticles
            /\ news_data.date \in Range(indexJson'.dates)
       /\ newsJson' # newsJson =>
            (pc = "write_latest" /\ AllProcessed(news_data) /\ newsJson' = <<news_data>>)
       /\ archiveDir' # archiveDir =>
            (pc = "write_archive" /\ newsJson = <<news_data>>)
       /\ indexJson' # indexJson =>
            /\ pc = "update_index"
            /\ newsJson = <<news_data>>
            /\ news_data.date \in DOMAIN archiveDir
            /\ archiveDir[news_data.date] = news_data]_vars

\* C11 witness: two runs have completed, for different target dates; the
\* latest file and the archive file of the last target date hold the same
\* envelope with five items in every category, and both dates are indexed.
TwoRunsCompleted ==
    /\ pc = "idle"
    /\ Len(indexJson.dates) = 2
    /\ newsJson # <<>>
    /\ newsJson[1].date = indexJson.dates[1]
    /\ DOMAIN archiveDir = Range(indexJson.dates)
    /\ archiveDir[indexJson.dates[1]] = newsJson[1]
    /\ archiveDir[indexJson.dates[2]] # newsJson[1]
    /\ \A i \in 1..Len(Categories) : Len(newsJson[1][Categories[i]]) = MaxArticles

====
